---------------------------- MODULE Spec2Model ----------------------------
(***************************************************************************)
(* Gossip spreading-time estimators of gossip_spreading_util.py:           *)
(*   EstimateSynchronousGossipTime      (exact, round based)               *)
(*   FastEstimateSynchronousGossipTime  (round based, useful-node frontier)*)
(*   EstimateAsynchronousGossipTime     (exact, event heap)                *)
(*   FastEstimateAsynchronousGossipTime (event heap, useless events        *)
(*                                       discarded)                        *)
(*                                                                         *)
(* One behaviour is one call of an exact spreader and one call of its fast *)
(* variant on the same arguments.  The two calls are co-simulated: the     *)
(* random source is a tape, the first call to need a decision draws it and *)
(* the other call reads the same decision.  The exact call takes a step    *)
(* first, the fast call follows; once one call has ended the other draws   *)
(* for itself.                                                             *)
(*                                                                         *)
(* Numbers: failure_probability and the draws of np.random.rand() are      *)
(* counted in halves (rand() is 0/2 or 1/2, never 1), end_criteria in      *)
(* quarters, so every comparison the code makes in floating point is       *)
(* exact.  Node identifiers are the Python ones, 0 .. N-1; neighbor_list   *)
(* is a sequence, so node n's list is neighbor_list[n + 1].                *)
(***************************************************************************)
EXTENDS Integers, Sequences, FiniteSets, TLC

VARIABLES
    timing,               \* which pair of spreaders the driver calls
    neighbor_list,        \* argument: the adjacency lists
    source_node,          \* argument
    number_of_nodes,      \* argument
    failure_probability,  \* argument, in halves
    end_criteria,         \* argument, in quarters
    sync,                 \* locals of EstimateSynchronousGossipTime
    fsync,                \* locals of FastEstimateSynchronousGossipTime
    async,                \* locals of EstimateAsynchronousGossipTime
    fasync,               \* locals of FastEstimateAsynchronousGossipTime
    round_draws,          \* random source: decisions of one synchronous round
    event_draws,          \* random source: decisions of asynchronous activations
    delay_draws,          \* random source: PoissonSample results
    poisson_samples,      \* random source: the values PoissonSample can give
    greedy                \* history: every choice so far took an uninfected neighbour when there was one

vars == <<timing, neighbor_list, source_node, number_of_nodes,
          failure_probability, end_criteria, sync, fsync, async, fasync,
          round_draws, event_draws, delay_draws, poisson_samples, greedy>>

args == <<timing, neighbor_list, source_node, number_of_nodes,
          failure_probability, end_criteria, poisson_samples>>

---------------------------------------------------------------------------
(* Bounds of the model *)

\* rounds a synchronous call is followed for
MaxRounds == 4

\* simulated time an asynchronous call is followed for
MaxTime == 4

\* events of one node an asynchronous call is followed for at time inf, where
\* time no longer advances
MaxInfiniteEvents == 2

---------------------------------------------------------------------------
(* Inputs *)

Cycle4 == << <<1, 3>>, <<0, 2>>, <<1, 3>>, <<0, 2>> >>

\* two components 0-1 and 2-3
TwoPairs == << <<1>>, <<0>>, <<3>>, <<2>> >>

Pair == << <<1>>, <<0>> >>

\* node 0 has itself as its only neighbour
SelfLoop == << <<0>>, <<0>> >>

\* one node, its own neighbour
OneNode == << <<0>> >>

\* node 1 has no neighbour
DeadEnd == << <<1>>, <<>> >>

\* the path 0-1-2
Path3 == << <<1>>, <<0, 2>>, <<1>> >>

\* the asynchronous calls are followed on the smaller connected graph
Topologies(model) ==
    IF model = "synchronous"
    THEN {Cycle4, TwoPairs, Pair, SelfLoop, OneNode, DeadEnd}
    ELSE {Path3, TwoPairs, Pair, SelfLoop, OneNode, DeadEnd}

\* -1 is Python's last element, Len(nl) is past the end
SourceNodes(nl) == {-1, 0, 1, Len(nl)}

NodeCounts(nl) == {Len(nl), Len(nl) - 1}

\* halves: -1/2, 0, 1/2, 1, 3/2
FailureProbabilities == {-1, 0, 1, 2, 3}

\* quarters: 0, 1/4, 1/2, 3/4, 1, 5/4
EndCriteria == {0, 1, 2, 3, 4, 5}

\* np.random.rand() in halves: 0 or 1/2
RandValues == {0, 1}

\* PoissonSample(1.0): -log(u) / 1.0 for u in (0,1) is positive and finite
Delays == {1, 2}

\* PoissonSample(1.0) when np.random.rand() gives 0.0: -log(0.0) is inf.
\* inf is a number above every finite time a call is followed to.
Infinity == 2 * MaxTime + 5

\* np.random.rand() is in [0,1): every value PoissonSample can give
DelaysWithInfinity == Delays \cup {Infinity}

\* float addition: inf + x is inf
Plus(time, delay) ==
    IF time = Infinity \/ delay = Infinity THEN Infinity ELSE time + delay

---------------------------------------------------------------------------
(* Python helpers *)

\* neighbor_list[n] raises IndexError outside -len .. len-1
InRange(nl, n) == n >= -Len(nl) /\ n <= Len(nl) - 1

\* neighbor_list[n], with Python's negative indexing
ListAt(nl, n) == IF n >= 0 THEN nl[n + 1] ELSE nl[Len(nl) + n + 1]

Elements(s) == {s[i] : i \in 1..Len(s)}

\* set(neighbor_list[n])
NeighborSet(nl, n) == Elements(ListAt(nl, n))

\* a mutant: the comparison the wrong way round
PushSucceedsInverted(u, p) == u <= p

\* np.random.rand() >= failure_probability
PushSucceeds(u, p) == u >= p

\* a mutant: strict comparison
ThresholdStrict(infected, criteria, n) == Cardinality(infected) * 4 > criteria * n

\* len(infected_node_set) >= end_criteria * n, end_criteria in quarters
Threshold(infected, criteria, n) == Cardinality(infected) * 4 >= criteria * n

\* a mutant: a pushing node pushes to all its neighbours in one round
DecisionsFlood(nl, p, n) ==
    {[push |-> FALSE, chosen |-> {}],
     [push |-> TRUE, chosen |-> IF InRange(nl, n) THEN NeighborSet(nl, n) ELSE {}]}

\* what one push attempt of node n can be: dropped, or a push with the chosen
\* neighbour; chosen is empty when neighbor_list[n] or the choice raises
Decisions(nl, p, n) ==
    LET pushes == {PushSucceeds(u, p) : u \in RandValues}
        picks  == IF InRange(nl, n) /\ NeighborSet(nl, n) # {}
                  THEN {{c} : c \in NeighborSet(nl, n)}
                  ELSE {{}}
    IN  {[push |-> FALSE, chosen |-> {}] : b \in pushes \ {TRUE}}
        \cup {[push |-> TRUE, chosen |-> c] : c \in {x \in picks : TRUE \in pushes}}

\* the exception a push attempt of node n raises, or "none"
PushError(nl, n) ==
    IF ~InRange(nl, n) THEN "IndexError"
    ELSE IF Len(ListAt(nl, n)) = 0 THEN "ValueError"
    ELSE "none"

NoDraws == [round |-> 0, draws |-> <<>>]

\* the locals of a spreader the driver does not call
NotCalled == [status |-> "not called"]

\* a mutant: the heap keeps one event only
PushAsynchronousEventReplace(event_heap, time, node) == {<<time, node>>}

\* heapq.heappush(event_heap, (time, node))
PushAsynchronousEvent(event_heap, time, node) == event_heap \cup {<<time, node>>}

Running(call) == call.status = "running"

\* every way to give each node of `nodes` one decision
DecisionMaps(nl, p, nodes) ==
    LET all == UNION {Decisions(nl, p, n) : n \in nodes}
    IN  {d \in [nodes -> all] : \A n \in nodes : d[n] \in Decisions(nl, p, n)}

---------------------------------------------------------------------------
(* State after the local initialisation of the calls *)

\* newly_infected_node_set and useless_node_set are unset until the first
\* round; removed is history: the nodes a round has taken out of
\* useful_node_set
InitSync ==
    /\ timing = "synchronous"
    /\ sync = [t |-> 0, infected_node_set |-> {source_node}, status |-> "running"]
    /\ fsync = [t |-> 0, infected_node_set |-> {source_node},
                useful_node_set |-> {source_node},
                newly_infected_node_set |-> {}, useless_node_set |-> {},
                removed |-> {}, status |-> "running"]
    /\ async = NotCalled
    /\ fasync = NotCalled

\* current_time and active_node are unset until the first pop, which pops
\* the source's event; scheduled, infected_at and
\* discarded are history: events pushed per node, the time each node was
\* infected, the nodes whose event the fast loop discarded
InitAsync ==
    /\ timing = "asynchronous"
    /\ sync = NotCalled
    /\ fsync = NotCalled
    /\ \E first \in poisson_samples :
        /\ async = [current_time |-> 0,
                    active_node |-> source_node,
                    infected_node_set |-> {source_node},
                    event_heap |-> PushAsynchronousEvent({}, Plus(0, first), source_node),
                    status |-> "running",
                    scheduled |-> (source_node :> 1),
                    infected_at |-> (source_node :> 0)]
        /\ fasync = [current_time |-> 0,
                     active_node |-> source_node,
                     infected_node_set |-> {source_node},
                     event_heap |-> PushAsynchronousEvent({}, Plus(0, first), source_node),
                     status |-> "running",
                     scheduled |-> (source_node :> 1),
                     infected_at |-> (source_node :> 0),
                     discarded |-> {}]

InitArguments ==
    /\ timing \in {"synchronous", "asynchronous"}
    /\ neighbor_list \in Topologies(timing)
    /\ source_node \in SourceNodes(neighbor_list)
    /\ number_of_nodes \in NodeCounts(neighbor_list)
    /\ failure_probability \in FailureProbabilities
    /\ end_criteria \in EndCriteria

InitLocals ==
    /\ InitSync \/ InitAsync
    /\ round_draws = NoDraws
    /\ event_draws = <<>>
    /\ delay_draws = <<>>
    /\ greedy = TRUE

\* the calls under finite samples
Init ==
    /\ poisson_samples = Delays
    /\ InitArguments
    /\ InitLocals

\* the calls of the drivers (source in range, number_of_nodes the number of
\* lists, failure probability in [0,1], end_criteria in (0,1]) under every
\* sample
InitWithInfinity ==
    /\ poisson_samples = DelaysWithInfinity
    /\ InitArguments
    /\ failure_probability \in {0, 1, 2}
    /\ end_criteria \in 1..4
    /\ number_of_nodes = Len(neighbor_list)
    /\ source_node \in 0..(number_of_nodes - 1)
    /\ InitLocals

---------------------------------------------------------------------------
(* EstimateSynchronousGossipTime: one pass of the while loop *)

\* the exceptions the for loop can raise under decisions d
SyncRoundErrors(nl, infected, d) ==
    {PushError(nl, n) : n \in {m \in infected : d[m].push}} \ {"none"}

\* a mutant: the round keeps only the newly infected nodes
SyncRoundInfectedNoUnion(infected, d) ==
    UNION {d[n].chosen : n \in infected}

\* infected_node_set.union(newly_infected_node_set)
SyncRoundInfected(infected, d) ==
    infected \cup UNION {d[n].chosen : n \in infected}

\* every pushing node with an uninfected neighbour chose an uninfected one
GreedyRound(nl, infected, d) ==
    \A n \in infected :
        (d[n].push /\ InRange(nl, n) /\ NeighborSet(nl, n) \ infected # {})
            => d[n].chosen \cap infected = {}

SyncRound ==
    /\ timing = "synchronous"
    /\ Running(sync)
    /\ sync.t < MaxRounds
    /\ ~Running(fsync) \/ sync.t <= fsync.t
    /\ \E d \in DecisionMaps(neighbor_list, failure_probability, sync.infected_node_set) :
        LET errors == SyncRoundErrors(neighbor_list, sync.infected_node_set, d)
            merged == SyncRoundInfected(sync.infected_node_set, d)
        IN  /\ IF errors # {}
               THEN \E e \in errors : sync' = [sync EXCEPT !.status = e]
               ELSE sync' = [t |-> sync.t + 1,
                             infected_node_set |-> merged,
                             status |-> IF Threshold(merged, end_criteria, Len(neighbor_list))
                                        THEN "returned" ELSE "running"]
            /\ greedy' = (greedy /\ GreedyRound(neighbor_list, sync.infected_node_set, d))
            /\ round_draws' = IF Running(fsync)
                              THEN [round |-> sync.t + 1, draws |-> d]
                              ELSE NoDraws
    /\ UNCHANGED <<args, fsync, async, fasync, event_draws, delay_draws>>

---------------------------------------------------------------------------
(* FastEstimateSynchronousGossipTime: one pass of the while loop *)

\* The for loop over useful_node_set in every iteration order: the set of
\* outcomes [infected, newly, useless, err].  infected_node_set is updated
\* inside the loop, so the issubset test sees this round's infections.
RECURSIVE FastSyncLoop(_, _, _, _, _, _)
FastSyncLoop(nl, todo, infected, newly, useless, d) ==
    IF todo = {}
    THEN {[infected |-> infected, newly |-> newly, useless |-> useless, err |-> "none"]}
    ELSE UNION {
        IF ~InRange(nl, n)
        THEN {[infected |-> infected, newly |-> newly, useless |-> useless,
               err |-> "IndexError"]}
        ELSE IF NeighborSet(nl, n) \subseteq infected
        THEN FastSyncLoop(nl, todo \ {n}, infected, newly, useless \cup {n}, d)
        ELSE IF ~d[n].push
        THEN FastSyncLoop(nl, todo \ {n}, infected, newly, useless, d)
        ELSE FastSyncLoop(nl, todo \ {n}, infected \cup d[n].chosen,
                          newly \cup d[n].chosen, useless, d)
        : n \in todo}

\* a mutant: the frontier is replaced by the newly infected nodes
FastSyncUsefulOnlyNew(useful, newly, useless) == newly \ useless

\* useful_node_set.union(newly_infected_node_set).difference(useless_node_set)
FastSyncUseful(useful, newly, useless) == (useful \cup newly) \ useless

FastSyncRound ==
    /\ timing = "synchronous"
    /\ Running(fsync)
    /\ fsync.t < MaxRounds
    /\ ~Running(sync) \/ fsync.t < sync.t
    /\ LET taped == IF round_draws.round = fsync.t + 1 THEN round_draws.draws ELSE <<>>
       IN  \E fresh \in DecisionMaps(neighbor_list, failure_probability,
                                     fsync.useful_node_set \ DOMAIN taped) :
           \E out \in FastSyncLoop(neighbor_list, fsync.useful_node_set,
                                   fsync.infected_node_set, {}, {}, taped @@ fresh) :
               fsync' = IF out.err # "none"
                        THEN [fsync EXCEPT !.infected_node_set = out.infected,
                                           !.status = out.err]
                        ELSE [t |-> fsync.t + 1,
                              infected_node_set |-> out.infected,
                              useful_node_set |-> FastSyncUseful(fsync.useful_node_set,
                                                                 out.newly, out.useless),
                              newly_infected_node_set |-> out.newly,
                              useless_node_set |-> out.useless,
                              removed |-> fsync.removed \cup out.useless,
                              status |-> IF Threshold(out.infected, end_criteria,
                                                      Len(neighbor_list))
                                         THEN "returned" ELSE "running"]
    /\ round_draws' = NoDraws
    /\ UNCHANGED <<args, sync, async, fasync, event_draws, delay_draws, greedy>>

---------------------------------------------------------------------------
(* The event heap and the random source of the asynchronous spreaders *)

\* Python's order on the tuples (time, node)
TupleLess(a, b) == a[1] < b[1] \/ (a[1] = b[1] /\ a[2] < b[2])

\* the event heapq.heappop returns: the least tuple of a non-empty heap
HeapMin(heap) == CHOOSE e \in heap : \A o \in heap \ {e} : TupleLess(e, o)

\* The calls are followed up to MaxTime; at time inf, where time no longer
\* advances, up to the MaxInfiniteEvents-th event of a node.
Followed(call, event) ==
    \/ event[1] <= MaxTime
    \/ event[1] = Infinity /\ call.scheduled[event[2]] <= MaxInfiniteEvents

\* how many events the call has pushed for node n
Scheduled(call, n) == IF n \in DOMAIN call.scheduled THEN call.scheduled[n] ELSE 0

\* a call that will never again activate node n
Dropped(call, n) == "discarded" \in DOMAIN call /\ n \in call.discarded

\* the random source keeps a draw only while the other call can still read it
KeepDecisions(draws, other) ==
    LET keep == {k \in DOMAIN draws :
                    Running(other) /\ ~Dropped(other, k[1]) /\ Scheduled(other, k[1]) <= k[2]}
    IN  [k \in keep |-> draws[k]]

KeepDelays(draws, other) ==
    LET keep == {k \in DOMAIN draws :
                    Running(other) /\ ~Dropped(other, k[1]) /\ Scheduled(other, k[1]) < k[2]}
    IN  [k \in keep |-> draws[k]]

\* the decisions the random source can give for key k = <<node, activation>>
DecisionFor(k) ==
    IF k \in DOMAIN event_draws THEN {event_draws[k]}
    ELSE Decisions(neighbor_list, failure_probability, k[1])

\* every way to sample a delay for each key <<node, activation>> of `keys`
DelayMaps(keys) ==
    {d \in [keys -> poisson_samples] : \A k \in keys \cap DOMAIN delay_draws : d[k] = delay_draws[k]}

\* the exception the push attempt of the popped event raises, or "none"
AsyncError(event, dec) ==
    IF dec.push THEN PushError(neighbor_list, event[2]) ELSE "none"

\* the call stops at this event: an exception, or the threshold against n nodes
AsyncEnds(call, event, n, dec) ==
    \/ AsyncError(event, dec) # "none"
    \/ Threshold(call.infected_node_set \cup dec.chosen, end_criteria, n)

\* the activations a call that goes on samples a delay for: the next one of
\* the active node and the first one of a newly infected node
DelayKeys(call, event, n, dec) ==
    IF AsyncEnds(call, event, n, dec) THEN {}
    ELSE {<<event[2], call.scheduled[event[2]] + 1>>}
         \cup {<<c, 1>> : c \in dec.chosen \ call.infected_node_set}

\* Lines 151-160 and 188-197, the same in both asynchronous loops: the push
\* attempt of the popped event <<time, node>>, the threshold test against n
\* nodes, and the events pushed when the call goes on.
AsyncProcess(call, event, n, dec, delay) ==
    LET node == event[2]
        time == event[1]
        heap == call.event_heap \ {event}
        uninf_node_chosen == dec.chosen \ call.infected_node_set # {}
        infected == call.infected_node_set \cup dec.chosen
        popped == [call EXCEPT !.current_time = time, !.active_node = node,
                               !.event_heap = heap]
        marked == [popped EXCEPT !.infected_node_set = infected,
                                 !.infected_at = [c \in dec.chosen \ DOMAIN @ |-> time] @@ @]
    IN  IF AsyncError(event, dec) # "none"
        THEN [popped EXCEPT !.status = AsyncError(event, dec)]
        ELSE IF Threshold(infected, end_criteria, n)
        THEN [marked EXCEPT !.status = "returned"]
        ELSE LET again == PushAsynchronousEvent(heap,
                              Plus(time, delay[<<node, call.scheduled[node] + 1>>]), node)
                 chosen_node == CHOOSE c \in dec.chosen : TRUE
                 both  == IF uninf_node_chosen
                          THEN PushAsynchronousEvent(again,
                                   Plus(time, delay[<<chosen_node, 1>>]), chosen_node)
                          ELSE again
             IN  [marked EXCEPT !.event_heap = both,
                                !.scheduled = [c \in dec.chosen \ DOMAIN @ |-> 1]
                                              @@ [@ EXCEPT ![node] = @ + 1]]

---------------------------------------------------------------------------
(* EstimateAsynchronousGossipTime: one pass of the while loop *)

AsyncEvent ==
    /\ timing = "asynchronous"
    /\ Running(async)
    /\ async.event_heap # {}
    /\ LET event == HeapMin(async.event_heap)
           key   == <<event[2], async.scheduled[event[2]]>>
       IN  /\ Followed(async, event)
           /\ \/ ~Running(fasync)
              \/ /\ fasync.event_heap # {}
                 /\ ~TupleLess(HeapMin(fasync.event_heap), event)
           /\ \E dec \in DecisionFor(key) :
              \E delay \in DelayMaps(DelayKeys(async, event, Len(neighbor_list), dec)) :
                 /\ async' = AsyncProcess(async, event, Len(neighbor_list), dec, delay)
                 /\ event_draws' = KeepDecisions((key :> dec) @@ event_draws, fasync)
                 /\ delay_draws' = KeepDelays(delay @@ delay_draws, fasync)
    /\ UNCHANGED <<args, sync, fsync, fasync, round_draws, greedy>>

---------------------------------------------------------------------------
(* FastEstimateAsynchronousGossipTime: one pass of the while loop *)

\* heapq.heappop(event_heap) on an empty heap
FastAsyncPopEmpty ==
    /\ fasync.event_heap = {}
    /\ fasync' = [fasync EXCEPT !.status = "IndexError"]
    /\ event_draws' = KeepDecisions(event_draws, fasync')
    /\ delay_draws' = KeepDelays(delay_draws, fasync')

\* a mutant: an event is discarded when some neighbour is infected
UselessEventAny(nl, node, infected) == NeighborSet(nl, node) \cap infected # {}

\* set(neighbor_list[active_node]).issubset(infected_node_set)
UselessEvent(nl, node, infected) == NeighborSet(nl, node) \subseteq infected

FastAsyncPop ==
    /\ fasync.event_heap # {}
    /\ LET event == HeapMin(fasync.event_heap)
           node  == event[2]
           key   == <<node, fasync.scheduled[node]>>
           popped == [fasync EXCEPT !.current_time = event[1],
                                    !.active_node = node,
                                    !.event_heap = @ \ {event}]
       IN  /\ Followed(fasync, event)
           /\ \/ ~Running(async)
              \/ /\ async.event_heap # {}
                 /\ TupleLess(event, HeapMin(async.event_heap))
           /\ IF ~InRange(neighbor_list, node)
              THEN /\ fasync' = [popped EXCEPT !.status = "IndexError"]
                   /\ event_draws' = KeepDecisions(event_draws, fasync')
                   /\ delay_draws' = KeepDelays(delay_draws, fasync')
              ELSE IF UselessEvent(neighbor_list, node, fasync.infected_node_set)
              THEN /\ fasync' = [popped EXCEPT !.discarded = @ \cup {node}]
                   /\ event_draws' = KeepDecisions(event_draws, fasync')
                   /\ delay_draws' = KeepDelays(delay_draws, fasync')
              ELSE \E dec \in DecisionFor(key) :
                   \E delay \in DelayMaps(DelayKeys(fasync, event, number_of_nodes, dec)) :
                      /\ fasync' = AsyncProcess(fasync, event, number_of_nodes, dec, delay)
                      /\ event_draws' = KeepDecisions((key :> dec) @@ event_draws, async)
                      /\ delay_draws' = KeepDelays(delay @@ delay_draws, async)

FastAsyncEvent ==
    /\ timing = "asynchronous"
    /\ Running(fasync)
    /\ FastAsyncPopEmpty \/ FastAsyncPop
    /\ UNCHANGED <<args, sync, fsync, async, round_draws, greedy>>

---------------------------------------------------------------------------

Next ==
    \/ SyncRound
    \/ FastSyncRound
    \/ AsyncEvent
    \/ FastAsyncEvent

Spec == Init /\ [][Next]_vars

SpecWithInfinity == InitWithInfinity /\ [][Next]_vars

---------------------------------------------------------------------------
(* Vocabulary of the properties *)

Synchronous == timing = "synchronous"

Asynchronous == timing = "asynchronous"

\* the calls the driver made
Calls == IF Synchronous THEN {sync, fsync} ELSE {async, fasync}

\* N, the number of adjacency lists
N == Len(neighbor_list)

\* every node has at least one neighbour
NoEmptyList == \A i \in 1..N : Len(neighbor_list[i]) > 0

\* len(infected) >= end_criteria * n, written out
Crossed(infected, n) == Cardinality(infected) * 4 >= end_criteria * n

\* a call of an asynchronous spreader that has processed an event and gone on
Processed(call) == call.scheduled[source_node] >= 2

ValidParameters ==
    /\ failure_probability \in {0, 1, 2}
    /\ end_criteria \in 1..4
    /\ source_node \in 0..(number_of_nodes - 1)

---------------------------------------------------------------------------
(* C1 *)

\* C1: in each of the four spreaders the infected set starts as
\* {source_node}, and every step leaves the infected set of before the step
\* a subset of the infected set after it.
C1_InfectedOnlyGrows ==
    /\ \A call \in Calls : call.infected_node_set = {source_node}
    /\ [][/\ Synchronous => /\ sync.infected_node_set \subseteq sync'.infected_node_set
                            /\ fsync.infected_node_set \subseteq fsync'.infected_node_set
          /\ Asynchronous => /\ async.infected_node_set \subseteq async'.infected_node_set
                             /\ fasync.infected_node_set \subseteq fasync'.infected_node_set
         ]_vars

\* some call has grown its infected set twice
C1_Witness ==
    \E call \in Calls : source_node \in call.infected_node_set
                        /\ Cardinality(call.infected_node_set) >= 3

---------------------------------------------------------------------------
(* C2 *)

\* C2: on a topology where every node has a neighbour, with the decisions of
\* each (round, node) shared through the random source, the exact and the
\* fast synchronous call that have run the same number of rounds hold the
\* same infected set and are both running or both returned, and two calls
\* that returned returned the same round number.
C2_SyncEquivalence ==
    (Synchronous /\ NoEmptyList /\ InRange(neighbor_list, source_node)) =>
        /\ sync.t = fsync.t =>
              /\ sync.infected_node_set = fsync.infected_node_set
              /\ sync.status = fsync.status
        /\ (sync.status = "returned" /\ fsync.status = "returned") => sync.t = fsync.t

\* both calls returned after two rounds or more, and the fast one had pruned
\* its frontier on the way
C2_Witness ==
    /\ Synchronous /\ NoEmptyList /\ InRange(neighbor_list, source_node)
    /\ sync.status = "returned" /\ fsync.status = "returned"
    /\ sync.t >= 2 /\ fsync.t = sync.t
    /\ failure_probability = 1
    /\ fsync.useful_node_set # fsync.infected_node_set

---------------------------------------------------------------------------
(* C3 *)

\* the fast asynchronous call has just discarded the event of its active node
JustDiscarded ==
    /\ fasync.active_node \in fasync.discarded
    /\ fasync.current_time > 0
    /\ \A e \in fasync.event_heap : e[2] # fasync.active_node

\* the last event of the exact call was <<time, node>>, and it ended the call
\* or left it with another infected set than the fast call has
ChangedAt(time, node) ==
    /\ async.current_time = time /\ async.active_node = node
    /\ \/ async.status = "returned"
       \/ async.infected_node_set # fasync.infected_node_set

AsyncFailed(call) == call.status \in {"IndexError", "ValueError"}

\* the asynchronous calls agree: nodes infected in both were infected at the
\* same time, two returned calls returned the same time with the same
\* infected set, a call does not fail where the other returns, and an event
\* the fast call discards changed nothing in the exact call
AsyncAgree ==
    /\ \A n \in DOMAIN async.infected_at \cap DOMAIN fasync.infected_at :
          async.infected_at[n] = fasync.infected_at[n]
    /\ (async.status = "returned" /\ fasync.status = "returned") =>
          /\ async.current_time = fasync.current_time
          /\ async.infected_node_set = fasync.infected_node_set
    /\ async.status = "returned" => ~AsyncFailed(fasync)
    /\ fasync.status = "returned" => ~AsyncFailed(async)
    /\ JustDiscarded => ~ChangedAt(fasync.current_time, fasync.active_node)

\* C3: on a topology where every node has a neighbour, with number_of_nodes
\* the number of adjacency lists and the decisions of each (node, activation)
\* shared through the random source, the exact and the fast asynchronous call
\* infect the same nodes at the same times and return the same time, and the
\* events the fast call discards change nothing in the exact call.
C3_AsyncEquivalence ==
    (Asynchronous /\ NoEmptyList /\ number_of_nodes = N /\ ValidParameters)
        => AsyncAgree

\* the same, when the source has a neighbour other than itself
C3_AsyncEquivalenceOffLoop ==
    (Asynchronous /\ NoEmptyList /\ number_of_nodes = N /\ ValidParameters
        /\ ~UselessEvent(neighbor_list, source_node, {source_node})) => AsyncAgree

---------------------------------------------------------------------------
(* C4 *)

\* C4: with number_of_nodes = N, a call that returned holds an infected set
\* of size >= end_criteria * N, and a call still running after a threshold
\* test (a synchronous round, an asynchronous event that was processed) holds
\* a smaller one: the call returns at the first test that succeeds.  The
\* value returned is the round counter t, or the time of the popped event.
C4_StoppingRule ==
    number_of_nodes = N =>
        \A call \in Calls :
            /\ call.status = "returned" => Crossed(call.infected_node_set, N)
            /\ (Synchronous /\ Running(call) /\ call.t >= 1)
                  => ~Crossed(call.infected_node_set, N)
            /\ (Asynchronous /\ Running(call) /\ Processed(call))
                  => ~Crossed(call.infected_node_set, N)
            /\ (Synchronous /\ call.status = "returned") => call.t >= 1
            /\ (Asynchronous /\ call.status = "returned")
                  => /\ call.current_time >= 1
                     /\ \A e \in call.event_heap :
                           ~TupleLess(e, <<call.current_time, call.active_node>>)

\* the fast asynchronous call went on after its first event and returned at a
\* later one, on the path with end_criteria 3/4
C4_Witness ==
    /\ Asynchronous /\ number_of_nodes = N /\ neighbor_list = Path3
    /\ end_criteria = 3
    /\ fasync.status = "returned" /\ Processed(fasync)
    /\ Cardinality(fasync.infected_node_set) = 3

---------------------------------------------------------------------------
(* C5 *)

\* end_criteria = 1/N: the source alone meets the criterion
OneNodeEnough == end_criteria * N = 4

\* C5 as stated: with end_criteria = 1/N the synchronous spreaders run no
\* round, and return 0.
C5_ReturnsZero ==
    (Synchronous /\ OneNodeEnough /\ ValidParameters /\ number_of_nodes = N) =>
        \A call \in Calls : call.t = 0

\* C5 amended: with end_criteria = 1/N a synchronous spreader never returns
\* 0; it runs its first round, and returns 1 when that round raises nothing.
C5_ReturnsOne ==
    (Synchronous /\ OneNodeEnough) =>
        \A call \in Calls :
            /\ call.status = "returned" => call.t = 1
            /\ call.t >= 1 => (call.t = 1 /\ call.status = "returned")
            /\ (call.t = 0 /\ ~Running(call)) => call.status \in {"IndexError", "ValueError"}

\* both synchronous calls returned 1 with only the source infected
C5_Witness ==
    /\ Synchronous /\ OneNodeEnough
    /\ sync.status = "returned" /\ sync.t = 1
    /\ fsync.status = "returned" /\ fsync.t = 1
    /\ sync.infected_node_set = {source_node}

---------------------------------------------------------------------------
(* C6 *)

\* C6: a push attempt of a node with an empty neighbour list raises nothing:
\* no call ends in the ValueError of np.random.choice on an empty list.
C6_EmptyNeighborhoodNoOp ==
    (ValidParameters /\ number_of_nodes = N) =>
        \A call \in Calls : call.status # "ValueError"

---------------------------------------------------------------------------
(* C7 *)

\* no round or event of the call has been processed
Untouched(call) ==
    /\ call.infected_node_set = {source_node}
    /\ call.status # "returned"
    /\ Synchronous => call.t = 0
    /\ Asynchronous => call.current_time = 0

\* C7: with failure_probability outside [0,1], end_criteria outside (0,1] or
\* source_node outside [0, number_of_nodes), no spreader processes a round or
\* an event, infects a node or returns a result.
C7_InvalidParameterRejected ==
    ~ValidParameters => \A call \in Calls : Untouched(call)

---------------------------------------------------------------------------
(* C8 *)

\* C8: with failure_probability = 1 the infected set of every call is
\* {source_node} in every state, and with number_of_nodes = N and
\* end_criteria * N > 1 no call returns.
C8_FullFailure ==
    failure_probability = 2 =>
        \A call \in Calls :
            /\ call.infected_node_set = {source_node}
            /\ (number_of_nodes = N /\ end_criteria * N > 4) => call.status # "returned"

\* under full failure a synchronous call has run two rounds and an
\* asynchronous call has rescheduled its source twice, and is still running
C8_Witness ==
    /\ failure_probability = 2 /\ number_of_nodes = N /\ end_criteria * N > 4
    /\ InRange(neighbor_list, source_node)
    /\ ~UselessEvent(neighbor_list, source_node, {source_node})
    /\ \/ Synchronous /\ Running(fsync) /\ fsync.t >= 2 /\ sync.t >= 2
       \/ Asynchronous /\ Running(fasync) /\ fasync.scheduled[source_node] >= 3

---------------------------------------------------------------------------
(* C9 *)

\* the threshold is out of reach: every push fails and one node is not enough
Unreachable ==
    /\ ValidParameters /\ number_of_nodes = N
    /\ failure_probability = 2
    /\ end_criteria * N > 4

\* C9: when the threshold cannot be reached, a call that has run as far as it
\* is followed (MaxRounds rounds, an event at MaxTime or later) has stopped in
\* a SpreadingStalled failure.
C9_StallDetected ==
    Unreachable =>
        \A call \in Calls :
            /\ (Synchronous /\ call.t >= MaxRounds) => call.status = "SpreadingStalled"
            /\ (Asynchronous /\ call.current_time >= MaxTime)
                  => call.status = "SpreadingStalled"

---------------------------------------------------------------------------
(* C10 *)

CycleScenario ==
    /\ Synchronous
    /\ neighbor_list = Cycle4 /\ source_node = 0
    /\ failure_probability = 0 /\ end_criteria = 3

\* C10: on the 4-node cycle with source 0, no failure and end_criteria 3/4,
\* EstimateSynchronousGossipTime never returns less than 2, and when every
\* node chose a not yet infected neighbour whenever it had one it returns
\* exactly 2: it has returned 2 once two rounds have passed.
C10_CycleReturnsTwo ==
    CycleScenario =>
        /\ sync.status = "returned" => sync.t >= 2
        /\ (greedy /\ sync.status = "returned") => sync.t = 2
        /\ (greedy /\ sync.t >= 2) => (sync.status = "returned" /\ sync.t = 2)

\* the greedy run returned 2 with the whole cycle infected
C10_Witness ==
    /\ CycleScenario /\ greedy
    /\ sync.status = "returned" /\ sync.t = 2
    /\ sync.infected_node_set = {0, 1, 2, 3}

\* a run with other choices returned later than 2
C10_WitnessLate ==
    /\ CycleScenario /\ ~greedy
    /\ sync.status = "returned" /\ sync.t = 3

---------------------------------------------------------------------------
(* C11 *)

\* the asynchronous call went from `before` to `after` by popping an event
Popped(before, after) ==
    /\ Asynchronous /\ Running(before) /\ before.event_heap # {}
    /\ after # before

\* the popped event times of one pass: not earlier than the pass before, and
\* every event the pass pushed is strictly later than the popped one
TimeAdvances(before, after) ==
    Popped(before, after) =>
        /\ after.current_time >= before.current_time
        /\ \A e \in after.event_heap \ before.event_heap :
              e[1] > after.current_time

\* the value returned, the time of the last popped event, is strictly
\* positive and finite
ReturnsFiniteTime(call) ==
    (Asynchronous /\ call.status = "returned") =>
        /\ call.current_time > 0
        /\ call.current_time < Infinity

\* every inter-activation delay the random source can give is strictly positive
PositiveSamples == \A d \in poisson_samples : d > 0

\* C11: every sample of the random source being strictly positive, in both
\* asynchronous spreaders the popped event times never decrease, an event
\* pushed while processing an event at time t has a time > t, and the value
\* returned (the time of the last popped event) is strictly positive and
\* finite.
C11_TimeAdvances ==
    /\ [](PositiveSamples => ReturnsFiniteTime(async) /\ ReturnsFiniteTime(fasync))
    /\ [][PositiveSamples =>
             TimeAdvances(async, async') /\ TimeAdvances(fasync, fasync')]_vars

\* the returned times alone
C11_ReturnsFiniteTime ==
    ReturnsFiniteTime(async) /\ ReturnsFiniteTime(fasync)

\* the same under finite samples holds; a call that returned at its third
\* event or later
C11_FiniteSamplesWitness ==
    /\ Asynchronous /\ ValidParameters /\ number_of_nodes = N
    /\ poisson_samples = Delays
    /\ async.status = "returned" /\ async.scheduled[source_node] >= 2
    /\ async.current_time >= 3

---------------------------------------------------------------------------
(* C12 *)

\* the synchronous call went from `before` to `after` by a whole round
Round(before, after) ==
    /\ Synchronous /\ Running(before)
    /\ after.status \in {"running", "returned"}
    /\ after.t = before.t + 1

\* the nodes a push of a node infected at the start of the round can reach
Reach(infected) ==
    UNION {NeighborSet(neighbor_list, n) : n \in {m \in infected : InRange(neighbor_list, m)}}

\* a round infects only neighbours of the nodes infected at its start, and at
\* most one node per node infected at its start
StartOfRound(before, after) ==
    Round(before, after) =>
        /\ after.infected_node_set \ before.infected_node_set
              \subseteq Reach(before.infected_node_set)
        /\ Cardinality(after.infected_node_set)
              <= 2 * Cardinality(before.infected_node_set)

\* after t rounds at most 2^t nodes are infected
AtMostDoubled(call) ==
    (Synchronous /\ call.status \in {"running", "returned"})
        => Cardinality(call.infected_node_set) <= 2 ^ call.t

\* C12: in both synchronous spreaders only the nodes infected at the start
\* of a round push in that round, each at most once, so the infected count
\* at most doubles in a round and is at most 2^t after t rounds.
C12_StartOfRound ==
    /\ [](AtMostDoubled(sync) /\ AtMostDoubled(fsync))
    /\ [][StartOfRound(sync, sync') /\ StartOfRound(fsync, fsync')]_vars

\* on the 4-cycle both calls doubled the infected set twice
C12_Witness ==
    /\ Synchronous /\ neighbor_list = Cycle4 /\ source_node = 0
    /\ sync.t = 2 /\ Cardinality(sync.infected_node_set) = 4
    /\ fsync.t = 2 /\ Cardinality(fsync.infected_node_set) = 4

---------------------------------------------------------------------------
(* C13 *)

\* C13: in FastEstimateSynchronousGossipTime a node that a round has removed
\* from useful_node_set, all its neighbours being infected, is never in
\* useful_node_set again (for the calls of the drivers: source in range,
\* number_of_nodes the number of lists, probabilities in range).
C13_RemovedForGood ==
    (Synchronous /\ ValidParameters /\ number_of_nodes = N)
        => fsync.removed \cap fsync.useful_node_set = {}

\* what the loop does keep: a node back in useful_node_set was chosen in the
\* round that put it back, and the next round removes it again
ChosenBack ==
    Synchronous =>
        fsync.removed \cap fsync.useful_node_set
            \subseteq fsync.newly_infected_node_set

---------------------------------------------------------------------------
(* C14 *)

\* useful_node_set is a subset of infected_node_set at a round boundary
FrontierInfected ==
    (Synchronous /\ fsync.status \in {"running", "returned"})
        => fsync.useful_node_set \subseteq fsync.infected_node_set

\* the nodes a round infected
NewlyInfected(before, after) ==
    after.infected_node_set \ before.infected_node_set

\* C14: in FastEstimateSynchronousGossipTime, at every round boundary
\* useful_node_set is a subset of the infected set, and useful_node_set after
\* a round is useful_node_set before the round, united with the nodes newly
\* infected in the round, minus the nodes the round found used-up (for the
\* calls of the drivers: source in range, number_of_nodes the number of
\* lists, probabilities in range).
C14_FrontierUpdate ==
    /\ []FrontierInfected
    /\ [][(Round(fsync, fsync') /\ ValidParameters /\ number_of_nodes = N) =>
             fsync'.useful_node_set
                = (fsync.useful_node_set \cup NewlyInfected(fsync, fsync'))
                     \ fsync'.useless_node_set]_vars

\* what the loop does keep: the update with the chosen nodes, infected
\* before the round or not, in place of the newly infected ones
FrontierUpdateChosen ==
    /\ []FrontierInfected
    /\ [][Round(fsync, fsync') =>
             /\ fsync'.useful_node_set
                   = (fsync.useful_node_set \cup fsync'.newly_infected_node_set)
                        \ fsync'.useless_node_set
             /\ NewlyInfected(fsync, fsync') \subseteq fsync'.newly_infected_node_set]_vars

---------------------------------------------------------------------------
(* C15 *)

\* the nodes with a pending event
Pending(call) == {e[2] : e \in call.event_heap}

\* at the loop head the pending events are one per infected node
OnePerInfected(call) ==
    (Asynchronous /\ Running(call)) =>
        /\ call.event_heap # {}
        /\ Pending(call) = call.infected_node_set
        /\ Cardinality(call.event_heap) = Cardinality(call.infected_node_set)

\* an event that does not end the call pushes one event for the acting node
\* and one for the chosen neighbour when that was not infected before
PushesOfEvent(before, after) ==
    (Popped(before, after) /\ Running(after)) =>
        LET rest   == before.event_heap \ {HeapMin(before.event_heap)}
            pushed == after.event_heap \ rest
        IN  /\ rest \subseteq after.event_heap
            /\ Cardinality(pushed) = Cardinality({e[2] : e \in pushed})
            /\ {e[2] : e \in pushed}
                  = {after.active_node} \cup NewlyInfected(before, after)
            /\ Cardinality(NewlyInfected(before, after)) <= 1

\* C15: in EstimateAsynchronousGossipTime the queue is never empty when the
\* loop pops; at every loop head each infected node has exactly one pending
\* event and no other node has one; an event that does not end the call
\* pushes one event for the acting node, and one more only when the chosen
\* neighbour was not infected before.
C15_OneEventPerInfected ==
    /\ []OnePerInfected(async)
    /\ [][PushesOfEvent(async, async')]_vars

\* on the path, nodes 0 and 1 are infected and both have acted; the call
\* goes on, two events pending
C15_Witness ==
    /\ Asynchronous /\ neighbor_list = Path3 /\ ValidParameters
    /\ number_of_nodes = N /\ source_node = 0
    /\ Running(async) /\ async.infected_node_set = {0, 1}
    /\ async.scheduled[0] >= 2 /\ async.scheduled[1] >= 2
    /\ Cardinality(async.event_heap) = 2

---------------------------------------------------------------------------
(* C16 *)

\* the call is in its loop with an event to pop, or has returned
LoopsOrReturned(call) ==
    /\ call.status \in {"running", "returned"}
    /\ Running(call) => call.event_heap # {}

\* C16: FastEstimateAsynchronousGossipTime leaves its loop only by returning
\* at the threshold crossing, the queue not being empty when the loop pops:
\* when the threshold is out of reach (here two components and every node
\* asked for) the call keeps looping and never fails.
C16_UnreachableKeepsLooping ==
    (Asynchronous /\ ValidParameters /\ number_of_nodes = N
         /\ neighbor_list = TwoPairs /\ end_criteria = 4)
        => LoopsOrReturned(fasync) /\ fasync.status # "returned"

\* the same for every call of the drivers on lists without an empty one
LeavesOnlyByReturn ==
    (Asynchronous /\ ValidParameters /\ number_of_nodes = N /\ NoEmptyList)
        => LoopsOrReturned(fasync)

\* the exact loop does keep looping when the threshold is out of reach
ExactKeepsLooping ==
    (Asynchronous /\ ValidParameters /\ number_of_nodes = N /\ NoEmptyList)
        => LoopsOrReturned(async)

---------------------------------------------------------------------------
(* C17 *)

\* node n has a neighbour that is not infected
Unsaturated(call, n) ==
    InRange(neighbor_list, n)
        /\ ~(NeighborSet(neighbor_list, n) \subseteq call.infected_node_set)

\* the pending events of node n
EventsOf(call, n) == {e \in call.event_heap : e[2] = n}

\* C17: in FastEstimateAsynchronousGossipTime, at every loop head every
\* infected node with an uninfected neighbour has exactly one pending event
\* (no node has more, no uninfected node has any); an infected node has none
\* only if its event was discarded, with all its neighbours infected, and
\* the neighbours of a discarded node stay infected ever after.
C17_PendingWhileUseful ==
    Asynchronous =>
        /\ Running(fasync) =>
              /\ \A n \in fasync.infected_node_set :
                    /\ Unsaturated(fasync, n) => Cardinality(EventsOf(fasync, n)) = 1
                    /\ EventsOf(fasync, n) = {} => n \in fasync.discarded
                    /\ Cardinality(EventsOf(fasync, n)) <= 1
              /\ Pending(fasync) \subseteq fasync.infected_node_set
        /\ \A n \in fasync.discarded :
              /\ n \in fasync.infected_node_set
              /\ InRange(neighbor_list, n)
              /\ NeighborSet(neighbor_list, n) \subseteq fasync.infected_node_set

\* on the path, the source infected node 1 and its next event was discarded;
\* node 1, with node 2 not infected, has its event pending
C17_Witness ==
    /\ Asynchronous /\ neighbor_list = Path3 /\ source_node = 0
    /\ Running(fasync)
    /\ fasync.infected_node_set = {0, 1}
    /\ fasync.discarded = {0}
    /\ Pending(fasync) = {1}

---------------------------------------------------------------------------
(* C18 *)

\* C18: in FastEstimateSynchronousGossipTime, at the start of every round
\* every infected node with an uninfected neighbour is in useful_node_set:
\* pruning never drops a node that could still infect someone.
C18_FrontierComplete ==
    (Synchronous /\ Running(fsync)) =>
        \A n \in fsync.infected_node_set :
            Unsaturated(fsync, n) => n \in fsync.useful_node_set

\* on the 4-cycle node 1 has been pruned, while nodes 0 and 2, each with
\* node 3 to infect, are in useful_node_set
C18_Witness ==
    /\ Synchronous /\ neighbor_list = Cycle4 /\ source_node = 0
    /\ Running(fsync)
    /\ fsync.infected_node_set = {0, 1, 2}
    /\ fsync.removed = {1}
    /\ fsync.useful_node_set = {0, 2}

---------------------------------------------------------------------------
(* C19 *)

\* the call has made a threshold test: a whole round, or an event that was
\* not discarded
Tested(call) ==
    IF Synchronous THEN call.t >= 1
    ELSE call.status = "returned" \/ Processed(call)

\* the call stopped, or went on, by the test against n nodes
StopsAgainst(call, n) ==
    /\ call.status = "returned" => Crossed(call.infected_node_set, n)
    /\ (Running(call) /\ Tested(call)) => ~Crossed(call.infected_node_set, n)

\* C19: all four spreaders stop by the same predicate, infected-set size >=
\* end_criteria * number_of_nodes with number_of_nodes the argument of the
\* call, also when number_of_nodes is not the number of lists in
\* neighbor_list (source in range, probabilities in range).
C19_SameStoppingPredicate ==
    ValidParameters => \A call \in Calls : StopsAgainst(call, number_of_nodes)

\* what the loops do test against: the fast asynchronous one
\* number_of_nodes, the three others the number of lists
StopsAgainstOwn ==
    /\ Synchronous => StopsAgainst(sync, N) /\ StopsAgainst(fsync, N)
    /\ Asynchronous => StopsAgainst(async, N) /\ StopsAgainst(fasync, number_of_nodes)

---------------------------------------------------------------------------
(* C20 *)

\* the lists are those of an undirected graph
Symmetric ==
    \A a, b \in 0..(N - 1) :
        b \in NeighborSet(neighbor_list, a) <=> a \in NeighborSet(neighbor_list, b)

\* the nodes within k links of `nodes`
RECURSIVE Within(_, _)
Within(nodes, k) ==
    IF k = 0 THEN nodes
    ELSE Within(nodes \cup UNION {NeighborSet(neighbor_list, a) : a \in nodes}, k - 1)

\* a connected topology in which every node has a neighbour
Connected ==
    /\ NoEmptyList
    /\ \A i \in 1..N : Elements(neighbor_list[i]) \subseteq 0..(N - 1)
    /\ Symmetric
    /\ Within({0}, N) = 0..(N - 1)

\* the calls the claim is about
CanSpread ==
    /\ Connected
    /\ failure_probability \in {0, 1}
    /\ end_criteria \in 1..4
    /\ number_of_nodes = N
    /\ source_node \in 0..(N - 1)

\* C20: on a connected topology in which every node has a neighbour, with
\* failure_probability < 1 and end_criteria in (0,1], each of the four
\* spreaders eventually returns under a fair random source; so none of them
\* leaves its loop by an exception, and the asynchronous ones always have an
\* event to pop.
C20_NoneFails ==
    CanSpread =>
        \A call \in Calls :
            /\ call.status \in {"running", "returned"}
            /\ (Asynchronous /\ Running(call)) => call.event_heap # {}

\* without a self-loop at the source no call fails
NoneFailsOffLoop ==
    (CanSpread /\ source_node \notin NeighborSet(neighbor_list, source_node))
        => C20_NoneFails

=============================================================================
